---- MODULE Spec2Model ----
(***************************************************************************)
(* A model of the RLM engine (backend/rlm/engine.py), the REPL environment *)
(* it drives (backend/rlm/environment.py) and the records it produces      *)
(* (backend/rlm/base.py), and of the recursive summarizer                  *)
(* (backend/rlm/summarizer.py).                                            *)
(*                                                                         *)
(* Spec is one engine serving one run at a time; ConcSpec is one engine    *)
(* with two invocations of run() interleaved at their awaits; SumSpec is   *)
(* one call of RecursiveSummarizer.summarize.  ExtSpec and FragSpec are    *)
(* Spec with other responses of the Model Client: mixes of prose and       *)
(* fenced blocks, and fragments that fault or terminate after they bound   *)
(* or changed a value.                                                     *)
(*                                                                         *)
(* Texts are TLA+ strings.  The Markdown code fence, three backquotes in   *)
(* the source, is written FENCE here: a backquote cannot appear in a TLA+  *)
(* string.  Optional values (Python's None) are sequences of length 0 or 1.*)
(***************************************************************************)
EXTENDS Integers, Sequences, FiniteSets, TLC

VARIABLES
    max_iterations,  \* RLMEngine.max_iterations
    loop_running,    \* whether the asyncio event loop driving run() is running
    pc,              \* where run() is: "idle", "awaiting" (suspended in llm.generate), "done"
    query,           \* run()'s argument query
    context,         \* run()'s argument context
    steps,           \* run()'s local steps
    llm_calls,       \* run()'s local llm_calls
    env,             \* run()'s local env, an RLMEnvironment
    prompt,          \* run()'s local prompt
    iteration,       \* run()'s loop variable
    result,          \* the RLMResult run() returned: <<>> until it returns
    llm_log,         \* the Model Client's record of the generate calls of this run
    trace,           \* what each executed fragment of this run did, in order
    prior_names,     \* names persisted in the environments of earlier runs
    runs,            \* ConcSpec: the frame (locals) of each invocation of run()
    chunk_size,      \* RecursiveSummarizer.chunk_size
    sum_text,        \* summarize()'s argument text
    sum_pc,          \* where summarize() is: "idle", "chunk", "merge", "done", "escaped"
    chunks,          \* summarize()'s local chunks
    summaries,       \* summarize()'s local summaries
    level,           \* summarize()'s local level
    combined,        \* summarize()'s local combined
    sum_i,           \* the position of the loop that is suspended in llm.generate
    sum_result,      \* the SummaryResult summarize() returned: <<>> until it returns
    sum_log,         \* the Model Client's record of the generate calls of summarize()
    passes           \* the summaries each finished merge pass started from

\* the state of the single run of Spec
run_vars == <<pc, query, context, steps, llm_calls, env, prompt, iteration,
              result, llm_log, trace, prior_names>>

\* the state of summarize()
sum_vars == <<chunk_size, sum_text, sum_pc, chunks, summaries, level, combined,
              sum_i, sum_result, sum_log, passes>>

vars == <<max_iterations, loop_running, run_vars, runs, sum_vars>>

----------------------------------------------------------------------------
(* Bounds *)

\* the largest max_iterations an engine is constructed with
MaxIter == 3

\* the largest number of paragraphs of a text drawn from Paragraphs
MaxParas == 4

\* the largest number of one-letter paragraphs of a long text
MaxLong == 10

\* the largest chunk_size a summarizer is constructed with
MaxChunkSize == 2

\* the largest number of parts a response is written from
MaxBlocks == 2

----------------------------------------------------------------------------
(* Text helpers: Python's str methods and the re searches the code uses *)

FENCE == "~~~"

None == << >>

Some(v) == <<v>>

\* s[i:].startswith(sub), 1-based
StartsWithAt(s, i, sub) ==
    /\ i >= 1
    /\ i + Len(sub) - 1 <= Len(s)
    /\ SubSeq(s, i, i + Len(sub) - 1) = sub

\* the least position >= from at which sub occurs in s, 0 when there is none
Find(sub, s, from) ==
    LET hits == {i \in from..Len(s) : StartsWithAt(s, i, sub)}
    IN  IF hits = {} THEN 0 ELSE CHOOSE i \in hits : \A j \in hits : i <= j

\* Python's `sub in s`
Contains(s, sub) == Find(sub, s, 1) # 0

IsSpace(c) == c \in {" ", "\n", "\t"}

\* str.strip()
strip(s) ==
    LET keep == {i \in 1..Len(s) : ~IsSpace(SubSeq(s, i, i))}
    IN  IF keep = {} THEN ""
        ELSE LET lo == CHOOSE i \in keep : \A j \in keep : i <= j
                 hi == CHOOSE i \in keep : \A j \in keep : j <= i
             IN  SubSeq(s, lo, hi)

\* name.startswith('_')
startswith_underscore(name) == StartsWithAt(name, 1, "_")

\* re.search(opener + r'\s*(.*?)' + FENCE, text, re.DOTALL): group(1) of the
\* leftmost match, None when there is no match.  The match starts at the first
\* opener that a later fence closes; \s* takes the whitespace after the opener
\* and the lazy group runs to the first fence after it.
re_search_block(opener, text) ==
    LET i == Find(opener, text, 1)
        a == i + Len(opener)
        j == IF i = 0 THEN 0 ELSE Find(FENCE, text, a)
        ws == {n \in a..(j - 1) : \A m \in a..n : IsSpace(SubSeq(text, m, m))}
    IN  IF i = 0 \/ j = 0 THEN None
        ELSE Some(SubSeq(text, a + Cardinality(ws), j - 1))

----------------------------------------------------------------------------
(* Python values a fragment handles: ints, strs and lists *)

IntV(n) == [t |-> "int", n |-> n, s |-> ""]

StrV(s) == [t |-> "str", n |-> 0, s |-> s]

\* a list object, held as the text str() gives for it; a list is mutable
ListV(s) == [t |-> "list", n |-> 0, s |-> s]

\* str(value)
Str(v) == IF v.t = "int" THEN ToString(v.n) ELSE v.s

\* the literal that denotes the value in source code
Repr(v) ==
    IF v.t = "int" THEN ToString(v.n)
    ELSE IF v.t = "str" THEN "'" \o v.s \o "'"
    ELSE v.s

\* the list object after list.append(v)
list_append(l, v) ==
    ListV(IF l.s = "[]" THEN "[" \o Repr(v) \o "]"
          ELSE SubSeq(l.s, 1, Len(l.s) - 1) \o ", " \o Repr(v) \o "]")

----------------------------------------------------------------------------
(* Fragments: the Python code a response carries.  A fragment is a sequence *)
(* of statements; its source text is what the engine sees and records.      *)

Stmt(k, name, val) == [k |-> k, name |-> name, val |-> val]

\* print(<literal>)
PrintLit(v) == Stmt("print_lit", "", v)

\* print(<name>)
PrintVar(n) == Stmt("print_var", n, IntV(0))

\* <name> = <literal>
Bind(n, v) == Stmt("bind", n, v)

\* <name> = llm_query(<literal>)
LlmQuery(n, v) == Stmt("llm_query", n, v)

\* FINAL(<literal>)
Final(v) == Stmt("final", "", v)

\* FINAL_VAR('<name>')
FinalVar(n) == Stmt("final_var", n, IntV(0))

\* 1/0
DivZero == Stmt("div_zero", "", IntV(0))

\* try: FINAL(<literal>)
\* except Exception: pass
TryFinal(v) == Stmt("try_final", "", v)

\* try: FINAL_VAR('<name>')
\* except Exception: pass
TryFinalVar(n) == Stmt("try_final_var", n, IntV(0))

\* print(__import__('os').getcwd())
PrintCwd == Stmt("print_cwd", "", IntV(0))

\* <name>.append(<literal>)
ListAppend(n, v) == Stmt("append", n, v)

\* the source line(s) of a statement
StmtSource(s) ==
    CASE s.k = "print_lit" -> "print(" \o Repr(s.val) \o ")"
      [] s.k = "print_var" -> "print(" \o s.name \o ")"
      [] s.k = "bind"      -> s.name \o " = " \o Repr(s.val)
      [] s.k = "llm_query" -> s.name \o " = llm_query(" \o Repr(s.val) \o ")"
      [] s.k = "final"     -> "FINAL(" \o Repr(s.val) \o ")"
      [] s.k = "final_var" -> "FINAL_VAR('" \o s.name \o "')"
      [] s.k = "div_zero"  -> "1/0"
      [] s.k = "print_cwd" -> "print(__import__('os').getcwd())"
      [] s.k = "append"    -> s.name \o ".append(" \o Repr(s.val) \o ")"
      [] s.k = "try_final" -> "try:\n    FINAL(" \o Repr(s.val) \o ")\nexcept Exception:\n    pass"
      [] s.k = "try_final_var" ->
            "try:\n    FINAL_VAR('" \o s.name \o "')\nexcept Exception:\n    pass"

RECURSIVE Source(_)
\* the source text of a fragment: its statements, one per line
Source(p) ==
    IF p = << >> THEN ""
    ELSE IF Len(p) = 1 THEN StmtSource(p[1])
    ELSE StmtSource(p[1]) \o "\n" \o Source(Tail(p))

\* the fragments the Model Client writes in this model
Programs ==
    { <<Final(StrV("42"))>>,
      <<PrintLit(StrV("a")), Final(IntV(42))>>,
      <<Bind("x", IntV(42))>>,
      <<Bind("_t", IntV(42))>>,
      <<PrintVar("x")>>,
      <<PrintVar("_t")>>,
      <<FinalVar("x")>>,
      <<Bind("x", StrV("b")), FinalVar("x")>>,
      <<PrintLit(StrV("a")), DivZero>>,
      <<Bind("x", StrV("b")), DivZero>>,
      <<LlmQuery("x", StrV("hi"))>>,
      <<TryFinal(StrV("a")), PrintLit(StrV("after"))>>,
      <<TryFinalVar("x")>>,
      <<Bind("query", IntV(42))>>,
      <<PrintVar("query")>>,
      <<PrintCwd>> }

\* fragments that rebind or change a persisted value and then fault or
\* terminate
FragPrograms ==
    { <<Bind("x", IntV(42))>>,
      <<Bind("x", StrV("b")), DivZero>>,
      <<PrintLit(StrV("a")), DivZero>>,
      <<Bind("items", ListV("[]"))>>,
      <<ListAppend("items", IntV(1)), DivZero>>,
      <<Bind("x", StrV("b")), FinalVar("x")>>,
      <<Bind("x", StrV("b")), TryFinalVar("x")>> }

\* Source, tabulated over the fragments of the model
SourceOf == [p \in Programs \cup FragPrograms |-> Source(p)]

\* compile(code): the statements of a source text, None for a text that is
\* not Python (exec raises SyntaxError before it runs anything)
compile(code) ==
    LET ps == {p \in Programs \cup FragPrograms : SourceOf[p] = code}
    IN  IF ps = {} THEN None ELSE Some(CHOOSE p \in ps : TRUE)

----------------------------------------------------------------------------
(* Exceptions *)

Exc(type, msg) == [type |-> type, msg |-> msg]

NoExc == Exc("", "")

\* the classes an exception of the given class is an instance of
mro(type) ==
    CASE type = "FinalAnswer"       -> {"FinalAnswer", "Exception", "BaseException"}
      [] type = "ZeroDivisionError" -> {"ZeroDivisionError", "ArithmeticError", "Exception", "BaseException"}
      [] type = "NameError"         -> {"NameError", "Exception", "BaseException"}
      [] type = "SyntaxError"       -> {"SyntaxError", "Exception", "BaseException"}
      [] type = "RuntimeError"      -> {"RuntimeError", "Exception", "BaseException"}
      [] type = "ValueError"        -> {"ValueError", "Exception", "BaseException"}
      [] type = "ConnectError"      -> {"ConnectError", "Exception", "BaseException"}
      [] OTHER                      -> {type, "BaseException"}

\* whether `except <cls>` handles the exception
Handles(cls, exc) == cls \in mro(exc.type)

----------------------------------------------------------------------------
(* backend/config.py *)

\* RLMConfig.max_depth, "Maximum recursion depth for llm_query() calls"
max_depth == 3

\* the values a deployment may set RLMConfig.max_depth to.  RLMEngine takes
\* no max_depth: nothing in a run depends on it.
MaxDepths == 0..max_depth

----------------------------------------------------------------------------
(* backend/rlm/base.py *)

RLMStep(step_type, content) == [step_type |-> step_type, content |-> content, depth |-> 0]

RLMResult(q, context_length, final_answer, stps, total_llm_calls, success, error) ==
    [query |-> q, context_length |-> context_length, final_answer |-> final_answer,
     steps |-> stps, total_llm_calls |-> total_llm_calls, success |-> success,
     error |-> error]

----------------------------------------------------------------------------
(* The Model Client as the engine sees it: a generate call either returns   *)
(* a text or raises.  A log entry is one call.                              *)

Call(by, p, outcome, text) == [by |-> by, prompt |-> p, outcome |-> outcome, text |-> text]

\* what the client answers to a call: a text, or an exception it raises
Reply(ok, text, exc) == [ok |-> ok, text |-> text, exc |-> exc]

\* OllamaClient.generate raises ValueError on an error payload, and httpx
\* raises on a transport failure
ClientFaults ==
    { Exc("ValueError", "Ollama error: model not found"),
      Exc("ConnectError", "All connection attempts failed") }

----------------------------------------------------------------------------
(* backend/rlm/environment.py *)

RLMEnvironment(ctx, q) == [context |-> ctx, query |-> q, variables |-> << >>]

FuncV(name) == [t |-> "func", n |-> 0, s |-> name]

Callables ==
    {"llm_query", "FINAL", "FINAL_VAR", "re", "print", "len", "str", "int", "list",
     "dict", "range", "enumerate", "zip", "sorted", "min", "max", "sum",
     "True", "False", "None"}

\* the namespace execute builds, before the persisted variables are added
base_namespace(self) ==
    [n \in {"context", "query"} \cup Callables |->
        IF n = "context" THEN StrV(self.context)
        ELSE IF n = "query" THEN StrV(self.query)
        ELSE FuncV(n)]

\* namespace.update(self.variables)
namespace_of(self) == self.variables @@ base_namespace(self)

skip ==
    {"context", "query", "llm_query", "FINAL", "FINAL_VAR",
     "re", "print", "len", "str", "int", "list", "dict",
     "range", "enumerate", "zip", "sorted", "min", "max", "sum",
     "True", "False", "None", "__builtins__"}

\* _save_variables with the underscore test inverted
_save_variables_private(variables, namespace) ==
    LET saved == {n \in DOMAIN namespace : n \notin skip /\ startswith_underscore(n)}
    IN  [n \in DOMAIN variables \cup saved |->
            IF n \in saved THEN namespace[n] ELSE variables[n]]

_save_variables(variables, namespace) ==
    LET saved == {n \in DOMAIN namespace : n \notin skip /\ ~startswith_underscore(n)}
    IN  [n \in DOMAIN variables \cup saved |->
            IF n \in saved THEN namespace[n] ELSE variables[n]]

\* The state of one exec: the namespace, the captured stdout, whether an
\* exception is propagating, the engine's locals that llm_callback updates
\* (llm_calls, steps, the client's log), the value the last call returned
\* (ret), and a record of what the fragment
\* did: the names it bound, the termination and llm_query calls it made, and
\* the number of statements it ran after its first termination call, and
\* the modules of the host it reached (host).  namespace.update(self.variables)
\* copies references: a persisted name the fragment has not rebound denotes
\* the same object in the namespace and in self.variables, so variables is
\* self.variables as the fragment's changes in place leave it.
ExecState(ns, variables, calls, stps, log) ==
    [ns |-> ns, variables |-> variables, out |-> "", status |-> "ok", exc |-> NoExc,
     llm_calls |-> calls, steps |-> stps, log |-> log,
     ret |-> "", bound |-> << >>, finals |-> << >>, final_vars |-> << >>,
     queries |-> << >>, after_final |-> 0, host |-> {}]

Raise(st, exc) == [st EXCEPT !.status = "raised", !.exc = exc]

_final(st, answer) ==
    Raise([st EXCEPT !.finals = Append(@, answer)], Exc("FinalAnswer", Str(answer)))

_final_var(self, st, var_name) ==
    LET st1 == [st EXCEPT !.final_vars = Append(@, var_name)]
    IN  IF var_name \in DOMAIN st.variables
        THEN Raise(st1, Exc("FinalAnswer", Str(st.variables[var_name])))
        ELSE Raise(st1, Exc("FinalAnswer", "Error: Variable '" \o var_name \o "' not found"))

----------------------------------------------------------------------------
(* backend/rlm/engine.py: the callbacks run() hands to the environment *)

\* llm_callback: count the call, record the step, ask the Model Client
llm_callback(st, p, reply) ==
    LET shown == IF Len(p) > 200 THEN SubSeq(p, 1, 200) \o "..." ELSE p
        st1 == [st EXCEPT
                  !.llm_calls = @ + 1,
                  !.steps = Append(@, RLMStep("llm_call", shown)),
                  !.log = Append(@, Call("llm_query", "Answer concisely: " \o p,
                                         IF reply.ok THEN "returned" ELSE "raised",
                                         IF reply.ok THEN reply.text ELSE reply.exc.msg))]
    IN  IF reply.ok THEN [st1 EXCEPT !.ret = reply.text] ELSE Raise(st1, reply.exc)

\* sync_callback: loop.run_until_complete(llm_callback(prompt)) on the loop
\* asyncio.get_event_loop() returns.  run_until_complete refuses to run on a
\* loop that is already running, before the coroutine takes a step.
sync_callback(st, p, reply) ==
    IF loop_running
    THEN Raise(st, Exc("RuntimeError", "This event loop is already running"))
    ELSE llm_callback(st, p, reply)

----------------------------------------------------------------------------
(* backend/rlm/environment.py: running a fragment *)

_llm_query(self, st, p, reply) ==
    LET r == sync_callback(st, p, reply)
    IN  [r EXCEPT !.queries =
            Append(@, [prompt |-> p,
                       returned |-> IF r.status = "ok" THEN Some(r.ret) ELSE None,
                       raised |-> IF r.status = "ok" THEN None ELSE Some(r.exc)])]

Assign(st, name, v) ==
    [st EXCEPT !.ns = (name :> v) @@ @, !.bound = (name :> v) @@ @]

\* <name>.append(v): the list the name denotes changes in place, and with it
\* the persisted value when the name still denotes the persisted object
append(st, name, v) ==
    IF name \notin DOMAIN st.ns
    THEN Raise(st, Exc("NameError", "name '" \o name \o "' is not defined"))
    ELSE IF st.ns[name].t # "list"
    THEN Raise(st, Exc("AttributeError",
                       "'" \o st.ns[name].t \o "' object has no attribute 'append'"))
    ELSE LET l == list_append(st.ns[name], v)
             shared == name \in DOMAIN st.variables /\ name \notin DOMAIN st.bound
         IN  [st EXCEPT !.ns = (name :> l) @@ @,
                        !.variables = IF shared THEN (name :> l) @@ @ ELSE @]

\* try: <call> / except Exception: pass, given the state the call left
try_except_pass(r) ==
    IF r.status = "raised" /\ Handles("Exception", r.exc)
    THEN [r EXCEPT !.status = "ok", !.exc = NoExc]
    ELSE r

\* names of the builtins module, which exec puts in a namespace that has no
\* __builtins__ of its own
BuiltinNames ==
    {"__import__", "open", "eval", "exec", "compile", "getattr", "globals",
     "print", "len", "str", "int", "list", "dict", "range", "enumerate", "zip",
     "sorted", "min", "max", "sum"}

\* the names code running in the namespace can resolve: its globals, then
\* the builtins behind __builtins__
Resolvable(ns) ==
    DOMAIN ns \cup (IF "__builtins__" \in DOMAIN ns THEN BuiltinNames ELSE {})

\* the working directory of the process that hosts the engine
Cwd == "/srv/rlm"

\* one statement of a fragment, run in the namespace
exec_stmt(self, s, st, reply) ==
    CASE s.k = "print_lit" -> [st EXCEPT !.out = @ \o Str(s.val) \o "\n"]
      [] s.k = "print_var" ->
            IF s.name \in DOMAIN st.ns
            THEN [st EXCEPT !.out = @ \o Str(st.ns[s.name]) \o "\n"]
            ELSE Raise(st, Exc("NameError", "name '" \o s.name \o "' is not defined"))
      [] s.k = "bind" -> Assign(st, s.name, s.val)
      [] s.k = "llm_query" ->
            LET r == _llm_query(self, st, Str(s.val), reply)
            IN  IF r.status = "ok" THEN Assign(r, s.name, StrV(r.ret)) ELSE r
      [] s.k = "final" -> _final(st, s.val)
      [] s.k = "final_var" -> _final_var(self, st, s.name)
      [] s.k = "div_zero" -> Raise(st, Exc("ZeroDivisionError", "division by zero"))
      [] s.k = "print_cwd" ->
            IF "__import__" \in Resolvable(st.ns)
            THEN [st EXCEPT !.host = @ \cup {"os"}, !.out = @ \o Cwd \o "\n"]
            ELSE Raise(st, Exc("NameError", "name '__import__' is not defined"))
      [] s.k = "append" -> append(st, s.name, s.val)
      [] s.k = "try_final" -> try_except_pass(_final(st, s.val))
      [] s.k = "try_final_var" -> try_except_pass(_final_var(self, st, s.name))

RECURSIVE exec_from(_, _, _, _, _)
\* the statements of p from the i-th on, until one raises
exec_from(self, p, i, st, reply) ==
    IF i > Len(p) \/ st.status # "ok" THEN st
    ELSE LET counted == IF st.finals # << >> \/ st.final_vars # << >>
                        THEN [st EXCEPT !.after_final = @ + 1] ELSE st
         IN  exec_from(self, p, i + 1, exec_stmt(self, p[i], counted, reply), reply)

\* exec(code, namespace): compile, then run; exec adds __builtins__ to the
\* namespace it is given
exec(self, code, st, reply) ==
    LET prog == compile(code)
    IN  IF prog = None
        THEN Raise(st, Exc("SyntaxError", "invalid syntax (<string>, line 1)"))
        ELSE exec_from(self, prog[1], 1,
                       [st EXCEPT !.ns = ("__builtins__" :> FuncV("builtins")) @@ @], reply)

\* the names of a namespace that hold data, with their values
Data(ns) == [n \in DOMAIN ns \ Callables |-> ns[n]]

\* What execute hands back to run(): the text it returns or the exception
\* it lets through, the environment after it, the engine's locals after the
\* callbacks, and the record of the fragment for the trace.
Executed(how, text, exc, self, st, code, before) ==
    [how |-> how, output |-> text, exc |-> exc, env |-> self,
     llm_calls |-> st.llm_calls, steps |-> st.steps, log |-> st.log,
     rec |-> [code |-> code, vars_start |-> before.variables,
              vars_end |-> self.variables,
              ns_start |-> Data(namespace_of(before)), bound |-> st.bound,
              finals |-> st.finals, final_vars |-> st.final_vars,
              queries |-> st.queries, after_final |-> st.after_final,
              host |-> st.host,
              printed |-> st.out,
              raised |-> IF st.status = "ok" THEN None ELSE Some(st.exc),
              how |-> how]]

\* execute_try without the handler for Exception
execute_try_unhandled(self, st, code) ==
    LET after == [self EXCEPT !.variables = st.variables]
    IN  IF st.status = "ok"
        THEN Executed("returned", st.out, NoExc,
                      [self EXCEPT !.variables = _save_variables(st.variables, st.ns)],
                      st, code, self)
        ELSE Executed("raised", "", st.exc, after, st, code, self)

\* execute_try with _save_variables in a finally clause
execute_try_saves_always(self, st, code) ==
    LET after == [self EXCEPT !.variables = _save_variables(st.variables, st.ns)]
    IN  IF st.status = "ok"
        THEN Executed("returned", st.out, NoExc, after, st, code, self)
        ELSE IF Handles("FinalAnswer", st.exc)
        THEN Executed("raised", "", st.exc, after, st, code, self)
        ELSE IF Handles("Exception", st.exc)
        THEN Executed("returned", "Error: " \o st.exc.type \o ": " \o st.exc.msg, NoExc,
                      after, st, code, self)
        ELSE Executed("raised", "", st.exc, after, st, code, self)

\* the try statement of execute: what happens to the outcome of exec.  The
\* environment keeps the changes the fragment made in place (after); its
\* names are saved only when exec returns.
execute_try(self, st, code) ==
    LET after == [self EXCEPT !.variables = st.variables]
    IN  IF st.status = "ok"
        THEN Executed("returned", st.out, NoExc,
                      [self EXCEPT !.variables = _save_variables(st.variables, st.ns)],
                      st, code, self)
        ELSE IF Handles("FinalAnswer", st.exc)
        THEN Executed("raised", "", st.exc, after, st, code, self)
        ELSE IF Handles("Exception", st.exc)
        THEN Executed("returned", "Error: " \o st.exc.type \o ": " \o st.exc.msg, NoExc,
                      after, st, code, self)
        ELSE Executed("raised", "", st.exc, after, st, code, self)

execute(self, code, calls, stps, log, reply) ==
    execute_try(self, exec(self, code, ExecState(namespace_of(self), self.variables, calls, stps, log), reply), code)

----------------------------------------------------------------------------
(* backend/rlm/engine.py: prompts and code extraction *)

\* SYSTEM_PROMPT.format(context_len=..., query=...): the fixed instructions,
\* shortened, and the task section
SYSTEM_PROMPT(context_len, q) ==
    "You have access to a Python REPL to answer questions about documents.\n"
    \o "## Your Task\nContext length: " \o ToString(context_len)
    \o " characters\nQuestion: " \o q
    \o "\n\nStart by examining the context, then answer the question.\n"

\* initial_prompt with a peek at the context appended
initial_prompt_with_peek(q, c) ==
    SYSTEM_PROMPT(Len(c), q) \o "Context starts: " \o SubSeq(c, 1, 1) \o "\n"

\* the initial prompt: SYSTEM_PROMPT.format(context_len=len(context), query=query)
initial_prompt(q, c) == SYSTEM_PROMPT(Len(c), q)

\* the prompt of the next iteration
next_prompt(output) ==
    "Previous code output:\n" \o FENCE \o "\n"
    \o (IF output # "" THEN output ELSE "(no output)")
    \o "\n" \o FENCE \o "\n\nContinue analyzing. Remember to call FINAL(answer) when you have the answer.\nWrite your next code block:"

Keywords == {"print", "for", "if", "def", "=", "FINAL"}

\* _extract_code falling back to the whole response
_extract_code_whole(text) ==
    LET tagged == re_search_block(FENCE \o "python", text)
        plain == re_search_block(FENCE, text)
    IN  IF tagged # None THEN Some(strip(tagged[1]))
        ELSE IF plain # None /\ (\E kw \in Keywords : Contains(strip(plain[1]), kw))
        THEN Some(strip(plain[1]))
        ELSE Some(strip(text))

\* _extract_code trying the untagged block before the python block
_extract_code_plain_first(text) ==
    LET tagged == re_search_block(FENCE \o "python", text)
        plain == re_search_block(FENCE, text)
    IN  IF plain # None /\ (\E kw \in Keywords : Contains(strip(plain[1]), kw))
        THEN Some(strip(plain[1]))
        ELSE IF tagged # None THEN Some(strip(tagged[1]))
        ELSE None

_extract_code(text) ==
    LET tagged == re_search_block(FENCE \o "python", text)
        plain == re_search_block(FENCE, text)
    IN  IF tagged # None THEN Some(strip(tagged[1]))
        ELSE IF plain # None /\ (\E kw \in Keywords : Contains(strip(plain[1]), kw))
        THEN Some(strip(plain[1]))
        ELSE None

\* Python's `not code` for an Optional[str]
not_code(code) == IF code = None THEN TRUE ELSE code[1] = ""

----------------------------------------------------------------------------
(* What the Model Client answers in this model *)

\* a response that carries the fragment in a block tagged python
Tagged(p) == "Here is the code:\n" \o FENCE \o "python\n" \o Source(p) \o "\n" \o FENCE

Prose == "The answer is 42."

Responses ==
    {Tagged(p) : p \in Programs}
    \cup { Prose,
           FENCE \o "\nSee information.\n" \o FENCE,
           FENCE \o "\nhello there\n" \o FENCE,
           FENCE \o "python\n" \o FENCE }

\* responses that carry the fragments of FragPrograms
FragResponses == {Tagged(p) : p \in FragPrograms} \cup {Prose}

\* The parts a response is written from: a line of prose, a fenced block
\* with no tag, a fenced block tagged python; each with its body.
Segment(kind, body) == [kind |-> kind, body |-> body]

Segments ==
    { Segment("prose", "Sure."),
      Segment("plain", "x = 42"),
      Segment("plain", "hello"),
      Segment("plain", ""),
      Segment("python", "print(x)"),
      Segment("python", "") }

\* the text of one part
SegmentText(seg) ==
    IF seg.kind = "prose" THEN seg.body
    ELSE FENCE \o (IF seg.kind = "python" THEN "python" ELSE "")
         \o "\n" \o seg.body \o "\n" \o FENCE

\* a response is written from one part or from several, in a given order
Shapes == UNION {[1..n -> Segments] : n \in 1..MaxBlocks}

RECURSIVE Written(_)
\* the text of a response: its parts, one after the other
Written(shape) ==
    IF Len(shape) = 1 THEN SegmentText(shape[1])
    ELSE SegmentText(shape[1]) \o "\n" \o Written(Tail(shape))

\* Written, tabulated
WrittenOf == [shape \in Shapes |-> Written(shape)]

\* responses that mix prose, untagged blocks and python blocks
ExtResponses == {WrittenOf[shape] : shape \in Shapes}

\* _extract_code, tabulated over the responses of the model
Extracted == [r \in Responses \cup FragResponses \cup ExtResponses |-> _extract_code(r)]

\* what the client answers to a sub-query
Replies ==
    { Reply(TRUE, "sub answer", NoExc),
      Reply(FALSE, "", Exc("ValueError", "Ollama error: model not found")) }

Queries == {"What is it about?"}

Contexts == {"alpha", "omega"}

----------------------------------------------------------------------------
(* backend/rlm/engine.py: RLMEngine.run *)

\* run() has returned res
Return(res, it, p, log) ==
    [pc |-> "done", iteration |-> it, llm_calls |-> res.total_llm_calls,
     steps |-> res.steps, prompt |-> p, result |-> Some(res), llm_log |-> log]

\* run() has let an exception through to its caller
Escape(it, calls, stps, p, log) ==
    [pc |-> "escaped", iteration |-> it, llm_calls |-> calls,
     steps |-> stps, prompt |-> p, result |-> None, llm_log |-> log]

\* run_except returning a fresh list of steps
run_except_no_steps(exc, it, q, c, calls, stps, p, log) ==
    IF Handles("Exception", exc)
    THEN Return(RLMResult(q, Len(c), "[Error: " \o exc.msg \o "]", << >>, calls,
                          FALSE, Some(exc.msg)), it, p, log)
    ELSE Escape(it, calls, stps, p, log)

\* the except clause of run()
run_except(exc, it, q, c, calls, stps, p, log) ==
    IF Handles("Exception", exc)
    THEN Return(RLMResult(q, Len(c), "[Error: " \o exc.msg \o "]", stps, calls,
                          FALSE, Some(exc.msg)), it, p, log)
    ELSE Escape(it, calls, stps, p, log)

\* for_loop with the bound off by one: range(self.max_iterations + 1)
for_loop_one_more(it, q, c, calls, stps, p, log) ==
    IF it <= max_iterations
    THEN [pc |-> "awaiting", iteration |-> it, llm_calls |-> calls + 1,
          steps |-> stps, prompt |-> p, result |-> None,
          llm_log |-> Append(log, Call("engine", p, "pending", ""))]
    ELSE Return(RLMResult(q, Len(c), "[Reached max iterations without final answer]",
                          stps, calls, FALSE, Some("Max iterations reached")),
                it, p, log)

\* for_loop returning a fresh list of steps when the iterations are used up
for_loop_fresh_steps(it, q, c, calls, stps, p, log) ==
    IF it < max_iterations
    THEN [pc |-> "awaiting", iteration |-> it, llm_calls |-> calls + 1,
          steps |-> stps, prompt |-> p, result |-> None,
          llm_log |-> Append(log, Call("engine", p, "pending", ""))]
    ELSE Return(RLMResult(q, Len(c), "[Reached max iterations without final answer]",
                          << >>, calls, FALSE, Some("Max iterations reached")),
                it, p, log)

\* the for statement, from the top of iteration `it`: count and issue the
\* code-generation call, or leave the loop when the iterations are used up
for_loop(it, q, c, calls, stps, p, log) ==
    IF it < max_iterations
    THEN [pc |-> "awaiting", iteration |-> it, llm_calls |-> calls + 1,
          steps |-> stps, prompt |-> p, result |-> None,
          llm_log |-> Append(log, Call("engine", p, "pending", ""))]
    ELSE Return(RLMResult(q, Len(c), "[Reached max iterations without final answer]",
                          stps, calls, FALSE, Some("Max iterations reached")),
                it, p, log)

\* the client's log once the pending call has ended
Answered(log, outcome, text) ==
    [log EXCEPT ![Len(log)] = Call(@.by, @.prompt, outcome, text)]

\* after_execute recording the final step without returning
after_execute_final_continues(ex, it, q, c, p) ==
    IF ex.how = "returned"
    THEN for_loop(it + 1, q, c, ex.llm_calls,
                  Append(ex.steps, RLMStep("output", ex.output)),
                  next_prompt(ex.output), ex.log)
    ELSE IF Handles("FinalAnswer", ex.exc)
    THEN for_loop(it + 1, q, c, ex.llm_calls,
                  Append(ex.steps, RLMStep("final", ex.exc.msg)),
                  next_prompt(""), ex.log)
    ELSE run_except(ex.exc, it, q, c, ex.llm_calls, ex.steps, p, ex.log)

\* the loop body after the code step: what run() does with what execute did
after_execute(ex, it, q, c, p) ==
    IF ex.how = "returned"
    THEN for_loop(it + 1, q, c, ex.llm_calls,
                  Append(ex.steps, RLMStep("output", ex.output)),
                  next_prompt(ex.output), ex.log)
    ELSE IF Handles("FinalAnswer", ex.exc)
    THEN Return(RLMResult(q, Len(c), ex.exc.msg,
                          Append(ex.steps, RLMStep("final", ex.exc.msg)),
                          ex.llm_calls, TRUE, None), it, p, ex.log)
    ELSE run_except(ex.exc, it, q, c, ex.llm_calls, ex.steps, p, ex.log)

Apply(n) ==
    /\ pc' = n.pc
    /\ iteration' = n.iteration
    /\ llm_calls' = n.llm_calls
    /\ steps' = n.steps
    /\ prompt' = n.prompt
    /\ result' = n.result
    /\ llm_log' = n.llm_log

\* no run() has been called
NoRun ==
    /\ pc = "idle"
    /\ query = ""
    /\ context = ""
    /\ steps = << >>
    /\ llm_calls = 0
    /\ env = RLMEnvironment("", "")
    /\ prompt = ""
    /\ iteration = 0
    /\ result = None
    /\ llm_log = << >>
    /\ trace = << >>
    /\ prior_names = {}

\* no second invocation of run() is modelled
NoFrames == runs = << >>

\* summarize() has not been called
NoSummarize ==
    /\ chunk_size = 0
    /\ sum_text = ""
    /\ sum_pc = "idle"
    /\ chunks = << >>
    /\ summaries = << >>
    /\ level = 0
    /\ combined = << >>
    /\ sum_i = 0
    /\ sum_result = None
    /\ sum_log = << >>
    /\ passes = << >>

Init ==
    /\ max_iterations \in 1..MaxIter
    /\ loop_running = FALSE
    /\ NoRun
    /\ NoFrames
    /\ NoSummarize

\* await engine.run(q, c) on the running event loop, up to the first await
StartRun(q, c) ==
    /\ pc \in {"idle", "done"}
    /\ loop_running' = TRUE
    /\ query' = q
    /\ context' = c
    /\ env' = RLMEnvironment(c, q)
    /\ Apply(for_loop(0, q, c, 0, << >>, initial_prompt(q, c), << >>))
    /\ trace' = << >>
    /\ prior_names' = prior_names \cup DOMAIN env.variables
    /\ UNCHANGED <<max_iterations, runs, sum_vars>>

\* llm.generate returns a response with no code: it is the final answer
ReturnsAnswer(response) ==
    /\ pc = "awaiting"
    /\ not_code(Extracted[response])
    /\ Apply(Return(RLMResult(query, Len(context), response,
                              Append(steps, RLMStep("final", response)),
                              llm_calls, TRUE, None),
                    iteration, prompt, Answered(llm_log, "returned", response)))
    /\ UNCHANGED <<max_iterations, loop_running, query, context, env, trace, prior_names>>
    /\ UNCHANGED <<runs, sum_vars>>

\* llm.generate returns a response with code: record it, execute it, go on
ReturnsCode(response, reply) ==
    /\ pc = "awaiting"
    /\ ~not_code(Extracted[response])
    /\ LET code == Extracted[response][1]
           ex == execute(env, code, llm_calls, Append(steps, RLMStep("code", code)),
                         Answered(llm_log, "returned", response), reply)
       IN  /\ Apply(after_execute(ex, iteration, query, context, prompt))
           /\ env' = ex.env
           /\ trace' = Append(trace, ex.rec)
    /\ UNCHANGED <<max_iterations, loop_running, query, context, prior_names>>
    /\ UNCHANGED <<runs, sum_vars>>

\* llm.generate raises
GenerateRaises(exc) ==
    /\ pc = "awaiting"
    /\ Apply(run_except(exc, iteration, query, context, llm_calls, steps, prompt,
                        Answered(llm_log, "raised", exc.msg)))
    /\ UNCHANGED <<max_iterations, loop_running, query, context, env, trace, prior_names>>
    /\ UNCHANGED <<runs, sum_vars>>

Next ==
    \/ \E q \in Queries, c \in Contexts : StartRun(q, c)
    \/ \E response \in Responses : ReturnsAnswer(response)
    \/ \E response \in Responses, reply \in Replies : ReturnsCode(response, reply)
    \/ \E exc \in ClientFaults : GenerateRaises(exc)

Spec == Init /\ [][Next]_vars

----------------------------------------------------------------------------
(* The same engine, answered with responses that mix prose, untagged       *)
(* blocks and python blocks; one iteration shows what run() makes of each.  *)

ExtInit ==
    /\ max_iterations = 1
    /\ loop_running = FALSE
    /\ NoRun
    /\ NoFrames
    /\ NoSummarize

ExtNext ==
    \/ \E q \in Queries, c \in Contexts : StartRun(q, c)
    \/ \E response \in ExtResponses : ReturnsAnswer(response)
    \/ \E response \in ExtResponses, reply \in Replies : ReturnsCode(response, reply)
    \/ \E exc \in ClientFaults : GenerateRaises(exc)

ExtSpec == ExtInit /\ [][ExtNext]_vars

----------------------------------------------------------------------------
(* The same engine, answered with the fragments of FragPrograms *)

FragNext ==
    \/ \E q \in Queries : StartRun(q, "alpha")
    \/ \E response \in FragResponses : ReturnsAnswer(response)
    \/ \E response \in FragResponses :
            ReturnsCode(response, Reply(TRUE, "sub answer", NoExc))
    \/ \E exc \in ClientFaults : GenerateRaises(exc)

FragSpec == Init /\ [][FragNext]_vars

----------------------------------------------------------------------------
(* Two invocations of run() on one engine, interleaved at their awaits.    *)
(* An invocation's locals (steps, llm_calls, env, prompt, iteration) live  *)
(* in its frame; the engine's fields (llm, max_iterations) and the event   *)
(* loop are shared.  Between two awaits an invocation runs alone: the loop *)
(* resumes one coroutine at a time.                                        *)

Runs == {1, 2}

\* the frame of an invocation that has not been called yet
NewFrame ==
    [pc |-> "idle", query |-> "", context |-> "", steps |-> << >>, llm_calls |-> 0,
     env |-> RLMEnvironment("", ""), prompt |-> "", iteration |-> 0,
     result |-> None, llm_log |-> << >>, trace |-> << >>]

\* the frame after run() went on to n
Enter(f, n) ==
    [f EXCEPT !.pc = n.pc, !.iteration = n.iteration, !.llm_calls = n.llm_calls,
              !.steps = n.steps, !.prompt = n.prompt, !.result = n.result,
              !.llm_log = n.llm_log]

\* frame_env with env kept on the engine: every invocation uses the
\* environment of the first
frame_env_on_engine(rs, r) == rs[1].env

\* the environment invocation r executes its fragments in: its local env
frame_env(rs, r) == rs[r].env

\* the responses the Model Client gives in ConcSpec
ConcResponses ==
    { Tagged(<<Bind("x", IntV(42))>>),
      Tagged(<<PrintVar("x")>>),
      Tagged(<<FinalVar("x")>>),
      Prose }

ConcReply == Reply(TRUE, "sub answer", NoExc)

ConcFault == Exc("ValueError", "Ollama error: model not found")

ConcInit ==
    /\ max_iterations \in 1..MaxIter
    /\ loop_running = FALSE
    /\ NoRun
    /\ runs = [r \in Runs |-> NewFrame]
    /\ NoSummarize

\* a task awaits engine.run(q, c): run() up to its first await
CallRun(r, q, c) ==
    /\ runs[r].pc = "idle"
    /\ loop_running' = TRUE
    /\ runs' = [runs EXCEPT ![r] =
            Enter([@ EXCEPT !.query = q, !.context = c, !.env = RLMEnvironment(c, q)],
                  for_loop(0, q, c, 0, << >>, initial_prompt(q, c), << >>))]
    /\ UNCHANGED <<max_iterations, run_vars, sum_vars>>

\* the generate call of invocation r returns a response with no code
ResumeWithAnswer(r, response) ==
    LET f == runs[r]
    IN  /\ f.pc = "awaiting"
        /\ not_code(Extracted[response])
        /\ runs' = [runs EXCEPT ![r] =
                Enter(f, Return(RLMResult(f.query, Len(f.context), response,
                                          Append(f.steps, RLMStep("final", response)),
                                          f.llm_calls, TRUE, None),
                                f.iteration, f.prompt,
                                Answered(f.llm_log, "returned", response)))]
        /\ UNCHANGED <<max_iterations, loop_running, run_vars, sum_vars>>

\* the generate call of invocation r returns a response with code
ResumeWithCode(r, response) ==
    LET f == runs[r]
    IN  /\ f.pc = "awaiting"
        /\ ~not_code(Extracted[response])
        /\ LET code == Extracted[response][1]
               ex == execute(frame_env(runs, r), code, f.llm_calls,
                             Append(f.steps, RLMStep("code", code)),
                             Answered(f.llm_log, "returned", response), ConcReply)
           IN  runs' = [runs EXCEPT ![r] =
                   Enter([f EXCEPT !.env = ex.env, !.trace = Append(@, ex.rec)],
                         after_execute(ex, f.iteration, f.query, f.context, f.prompt))]
        /\ UNCHANGED <<max_iterations, loop_running, run_vars, sum_vars>>

\* the generate call of invocation r raises
ResumeWithFault(r, exc) ==
    LET f == runs[r]
    IN  /\ f.pc = "awaiting"
        /\ runs' = [runs EXCEPT ![r] =
                Enter(f, run_except(exc, f.iteration, f.query, f.context, f.llm_calls,
                                    f.steps, f.prompt,
                                    Answered(f.llm_log, "raised", exc.msg)))]
        /\ UNCHANGED <<max_iterations, loop_running, run_vars, sum_vars>>

ConcNext ==
    \/ \E r \in Runs, q \in Queries, c \in Contexts : CallRun(r, q, c)
    \/ \E r \in Runs, response \in ConcResponses : ResumeWithAnswer(r, response)
    \/ \E r \in Runs, response \in ConcResponses : ResumeWithCode(r, response)
    \/ \E r \in Runs : ResumeWithFault(r, ConcFault)

ConcSpec == ConcInit /\ [][ConcNext]_vars

----------------------------------------------------------------------------
(* backend/rlm/summarizer.py *)

RECURSIVE split(_, _)
\* str.split(sep)
split(str, sep) ==
    LET i == Find(sep, str, 1)
    IN  IF i = 0 THEN <<str>>
        ELSE <<SubSeq(str, 1, i - 1)>> \o split(SubSeq(str, i + Len(sep), Len(str)), sep)

RECURSIVE join(_, _)
\* sep.join(parts)
join(sep, parts) ==
    IF parts = << >> THEN ""
    ELSE IF Len(parts) = 1 THEN parts[1]
    ELSE parts[1] \o sep \o join(sep, Tail(parts))

SummaryResult(summary, chunk_count, levels) ==
    [summary |-> summary, chunk_count |-> chunk_count, levels |-> levels]

RECURSIVE _split_for(_, _, _, _, _)
\* the for loop of _split from the i-th paragraph on, and what follows it
_split_for(paragraphs, i, acc, current, size) ==
    IF i > Len(paragraphs)
    THEN IF strip(current) # "" THEN Append(acc, strip(current)) ELSE acc
    ELSE LET para == paragraphs[i]
         IN  IF Len(current) + Len(para) > size
             THEN _split_for(paragraphs, i + 1,
                             IF current # "" THEN Append(acc, strip(current)) ELSE acc,
                             para, size)
             ELSE _split_for(paragraphs, i + 1, acc,
                             IF current # "" THEN current \o "\n\n" \o para ELSE para,
                             size)

_split(str, size) == _split_for(split(str, "\n\n"), 1, << >>, "", size)

\* Python's min for two ints
min(a, b) == IF a <= b THEN a ELSE b

\* summaries[i:i+2]
group_of_two(all, i) == SubSeq(all, i + 1, min(i + 2, Len(all)))

\* group = summaries[i:i+3], i counting from 0
group(all, i) == SubSeq(all, i + 1, min(i + 3, Len(all)))

\* the paragraphs texts are made of
Paragraphs == {"", " ", "a", "bb"}

RECURSIVE repeat(_, _)
\* [v] * n
repeat(v, n) == IF n = 0 THEN << >> ELSE <<v>> \o repeat(v, n - 1)

\* the texts summarize() is called with: up to MaxParas paragraphs of any
\* kind, and up to MaxLong paragraphs "a"
Texts ==
    {join("\n\n", ps) : ps \in UNION {[1..n -> Paragraphs] : n \in 1..MaxParas}}
    \cup {join("\n\n", repeat("a", n)) : n \in 1..MaxLong}

\* what the Model Client answers to the n-th generate call of summarize()
SummaryReplies(n) == {" s" \o ToString(n) \o "\n"}

\* summarize() suspended in a generate call
Generate(where, i, p, log) ==
    /\ sum_pc' = where
    /\ sum_i' = i
    /\ sum_log' = Append(log, Call("summarizer", p, "pending", ""))

\* the while statement, reached with summaries smrs, level lvl and combined
\* cmb: start a merge pass with its first generate call, or return
while_loop(smrs, lvl, cmb, log) ==
    IF Len(smrs) > 1
    THEN /\ level' = lvl + 1
         /\ combined' = << >>
         /\ sum_pc' = "merge"
         /\ sum_i' = 0
         /\ sum_log' = Append(log, Call("summarizer",
                "Combine these summaries into one:\n\n" \o join("\n\n", group(smrs, 0)),
                "pending", ""))
         /\ sum_result' = None
    ELSE /\ level' = lvl
         /\ combined' = cmb
         /\ sum_pc' = "done"
         /\ sum_i' = sum_i
         /\ sum_log' = log
         /\ sum_result' = Some(SummaryResult(smrs[1], Len(chunks), lvl))

SumInit ==
    /\ max_iterations = 1
    /\ loop_running = FALSE
    /\ NoRun
    /\ NoFrames
    /\ chunk_size \in 1..MaxChunkSize
    /\ sum_text \in Texts
    /\ sum_pc = "idle"
    /\ chunks = << >>
    /\ summaries = << >>
    /\ level = 0
    /\ combined = << >>
    /\ sum_i = 0
    /\ sum_result = None
    /\ sum_log = << >>
    /\ passes = << >>

\* await summarizer.summarize(text), up to its first await or its return
Summarize ==
    /\ sum_pc = "idle"
    /\ chunks' = _split(sum_text, chunk_size)
    /\ IF chunks' = << >>
       THEN /\ sum_result' = Some(SummaryResult("Empty document.", 0, 0))
            /\ sum_pc' = "done"
            /\ UNCHANGED <<sum_i, sum_log>>
       ELSE /\ Generate("chunk", 1, "Summarize this in 2-3 sentences:\n\n" \o chunks'[1],
                        sum_log)
            /\ UNCHANGED sum_result
    /\ UNCHANGED <<chunk_size, sum_text, summaries, level, combined, passes>>
    /\ UNCHANGED <<max_iterations, loop_running, run_vars, runs>>

\* the generate call for a chunk returns: keep the summary, go on to the
\* next chunk or to the while loop
ChunkSummarized(reply) ==
    /\ sum_pc = "chunk"
    /\ summaries' = Append(summaries, strip(reply))
    /\ IF sum_i < Len(chunks)
       THEN /\ Generate("chunk", sum_i + 1,
                        "Summarize this in 2-3 sentences:\n\n" \o chunks[sum_i + 1],
                        Answered(sum_log, "returned", reply))
            /\ UNCHANGED <<level, combined, sum_result>>
       ELSE while_loop(summaries', 1, combined, Answered(sum_log, "returned", reply))
    /\ UNCHANGED <<chunk_size, sum_text, chunks, passes>>
    /\ UNCHANGED <<max_iterations, loop_running, run_vars, runs>>

\* the generate call for a group returns: keep the merged summary, go on to
\* the next group, or end the pass and go round the while loop
GroupMerged(reply) ==
    /\ sum_pc = "merge"
    /\ IF sum_i + 3 < Len(summaries)
       THEN /\ combined' = Append(combined, strip(reply))
            /\ Generate("merge", sum_i + 3,
                        "Combine these summaries into one:\n\n"
                            \o join("\n\n", group(summaries, sum_i + 3)),
                        Answered(sum_log, "returned", reply))
            /\ UNCHANGED <<summaries, level, sum_result, passes>>
       ELSE /\ summaries' = Append(combined, strip(reply))
            /\ passes' = Append(passes, summaries)
            /\ while_loop(summaries', level, summaries',
                          Answered(sum_log, "returned", reply))
    /\ UNCHANGED <<chunk_size, sum_text, chunks>>
    /\ UNCHANGED <<max_iterations, loop_running, run_vars, runs>>

\* a generate call of summarize() raises: summarize() has no handler
SummarizeRaises(exc) ==
    /\ sum_pc \in {"chunk", "merge"}
    /\ sum_pc' = "escaped"
    /\ sum_log' = Answered(sum_log, "raised", exc.msg)
    /\ UNCHANGED <<chunk_size, sum_text, chunks, summaries, level, combined, sum_i,
                   sum_result, passes>>
    /\ UNCHANGED <<max_iterations, loop_running, run_vars, runs>>

SumNext ==
    \/ Summarize
    \/ \E reply \in SummaryReplies(Len(sum_log)) : ChunkSummarized(reply)
    \/ \E reply \in SummaryReplies(Len(sum_log)) : GroupMerged(reply)
    \/ \E exc \in ClientFaults : SummarizeRaises(exc)

SumSpec == SumInit /\ [][SumNext]_vars

----------------------------------------------------------------------------
(* Reading a run: its steps, its Model Client calls, its fragments *)

StepsOfType(stps, ty) == SelectSeq(stps, LAMBDA st : st.step_type = ty)

\* the code-generation calls run() itself made
EngineCalls(log) == SelectSeq(log, LAMBDA cl : cl.by = "engine")

\* the calls made for llm_query
SubCalls(log) == SelectSeq(log, LAMBDA cl : cl.by = "llm_query")

\* the steps of the fragments themselves: code, then output or final
FragmentSteps(stps) == SelectSeq(stps, LAMBDA st : st.step_type # "llm_call")

RECURSIVE QueriesUpTo(_, _)
\* the number of llm_query calls the first k fragments made
QueriesUpTo(tr, k) == IF k = 0 THEN 0 ELSE QueriesUpTo(tr, k - 1) + Len(tr[k].queries)

\* the k-th fragment called FINAL
InvokedFinal(k) == trace[k].finals # << >>

\* no fragment so far called FINAL or FINAL_VAR
NoTermination == \A k \in 1..Len(trace) : trace[k].finals = << >> /\ trace[k].final_vars = << >>

Returned == pc = "done" /\ result # None

----------------------------------------------------------------------------
(* C1 *)

\* C1: if the k-th fragment of a run calls FINAL(v), the run has returned
\* right after that fragment with final_answer = str(v) and success, with
\* exactly k code steps, at most k output steps, one final step that is the
\* last step, and no Model Client call after the k-th code-generation call.
C1_FinalEndsRun ==
    \A k \in 1..Len(trace) :
        InvokedFinal(k) =>
            /\ Returned
            /\ k = Len(trace)
            /\ result[1].final_answer = Str(trace[k].finals[1])
            /\ result[1].success = TRUE
            /\ Len(StepsOfType(result[1].steps, "code")) = k
            /\ Len(StepsOfType(result[1].steps, "output")) <= k
            /\ Len(StepsOfType(result[1].steps, "final")) = 1
            /\ result[1].steps[Len(result[1].steps)].step_type = "final"
            /\ Len(EngineCalls(llm_log)) = k

----------------------------------------------------------------------------
(* C2 *)

\* every code-generation call answered so far returned a response with a fragment
AllResponsesCode ==
    \A i \in 1..Len(llm_log) :
        llm_log[i].by = "engine" =>
            /\ llm_log[i].outcome # "raised"
            /\ llm_log[i].outcome = "returned" => ~not_code(Extracted[llm_log[i].text])

\* C2: in a run whose responses all carry a fragment and whose fragments
\* never call FINAL or FINAL_VAR, the engine makes no more than
\* max_iterations code-generation calls, has returned once max_iterations
\* fragments ran, and returns only after exactly max_iterations
\* code-generation calls, with success = false.
C2_BudgetExhausted ==
    (pc # "idle" /\ AllResponsesCode /\ NoTermination) =>
        /\ Len(EngineCalls(llm_log)) <= max_iterations
        /\ Len(trace) = max_iterations => Returned
        /\ pc = "done" =>
              /\ Len(EngineCalls(llm_log)) = max_iterations
              /\ Len(trace) = max_iterations
              /\ result[1].success = FALSE
        /\ pc \in {"awaiting", "done"}

C2_Witness ==
    /\ Returned /\ AllResponsesCode /\ NoTermination
    /\ max_iterations = MaxIter
    /\ Len(EngineCalls(llm_log)) = MaxIter
    /\ result[1].success = FALSE

----------------------------------------------------------------------------
(* C3 *)

\* C3: every llm_query call of a fragment has added exactly 1 to llm_calls
\* and appended exactly one llm_call step, of depth 1.
C3_QueryCountedAndRecorded ==
    LET nq == QueriesUpTo(trace, Len(trace))
        recorded == StepsOfType(steps, "llm_call")
    IN  pc # "idle" =>
            /\ Len(recorded) = nq
            /\ \A i \in 1..Len(recorded) : recorded[i].depth = 1
            /\ llm_calls = Len(EngineCalls(llm_log)) + nq

----------------------------------------------------------------------------
(* C4 *)

\* C4: every llm_query call of a fragment made one Model Client generate
\* call and handed that call's text back to the fragment.
C4_QueryReturnsClientText ==
    /\ Len(SubCalls(llm_log)) = QueriesUpTo(trace, Len(trace))
    /\ \A k \in 1..Len(trace) : \A i \in 1..Len(trace[k].queries) :
          /\ trace[k].queries[i].returned # None
          /\ \E j \in 1..Len(llm_log) :
                /\ llm_log[j].by = "llm_query"
                /\ llm_log[j].outcome = "returned"
                /\ llm_log[j].text = trace[k].queries[i].returned[1]

----------------------------------------------------------------------------
(* C5 *)

\* the bindings execute provides itself
FixedBindings == {"context", "query"} \cup Callables \cup {"__builtins__"}

VisibleNext(k, n) ==
    /\ n \in DOMAIN trace[k + 1].ns_start
    /\ trace[k + 1].ns_start[n] = trace[k].bound[n]

\* every name visible to a fragment is a fixed binding or was bound by an
\* earlier fragment of the same run
OnlyOwnNames ==
    \A k \in 1..Len(trace) : \A n \in DOMAIN trace[k].ns_start :
        n \in FixedBindings \/ \E j \in 1..(k - 1) : n \in DOMAIN trace[j].bound

----------------------------------------------------------------------------
(* C6 *)

\* C6: a fragment that calls FINAL_VAR(name) ends the run with the text of
\* the value persisted under name, or with the not-found message when no
\* value is persisted under it; the fragment ends with the termination
\* signal and nothing else.
C6_FinalVarAnswer ==
    \A k \in 1..Len(trace) :
        trace[k].final_vars # << >> =>
            LET n == trace[k].final_vars[1]
                persisted == trace[k].vars_start
                answer == IF n \in DOMAIN persisted THEN Str(persisted[n])
                          ELSE "Error: Variable '" \o n \o "' not found"
            IN  /\ trace[k].raised = Some(Exc("FinalAnswer", answer))
                /\ Returned
                /\ k = Len(trace)
                /\ result[1].final_answer = answer
                /\ result[1].success = TRUE
                /\ result[1].error = None

----------------------------------------------------------------------------
(* C7 *)

\* the k-th fragment ended with an exception other than the termination signal
Faulted(k) == trace[k].raised # None /\ trace[k].raised[1].type # "FinalAnswer"

----------------------------------------------------------------------------
(* C8 *)

\* C8: once a fragment has called FINAL(value), no further statement of the
\* fragment runs, and the run has returned with final_answer = str(value).
C8_FinalAbortsFragment ==
    \A k \in 1..Len(trace) :
        InvokedFinal(k) =>
            /\ trace[k].after_final = 0
            /\ trace[k].raised = Some(Exc("FinalAnswer", Str(trace[k].finals[1])))
            /\ Returned
            /\ result[1].final_answer = Str(trace[k].finals[1])

----------------------------------------------------------------------------
(* C9 *)

\* the code-generation call that is pending now has, in the next state, raised
PendingCallRaises ==
    /\ pc = "awaiting"
    /\ Len(llm_log') >= Len(llm_log)
    /\ llm_log'[Len(llm_log)].outcome = "raised"

\* C9: when the code-generation call of an iteration raises, run() returns
\* at once with success = false, the exception's message in error, and the
\* steps exactly as they stood when the call was made; it makes no further
\* Model Client call.
C9_ClientFaultAborts ==
    [][ PendingCallRaises =>
          /\ pc' = "done"
          /\ result' # None
          /\ result'[1].success = FALSE
          /\ result'[1].error = Some(llm_log'[Len(llm_log)].text)
          /\ result'[1].steps = steps
          /\ steps' = steps
          /\ result'[1].total_llm_calls = llm_calls
          /\ Len(llm_log') = Len(llm_log) ]_vars

\* the call of the second iteration raised, after one fragment had run
C9_Witness ==
    /\ Returned
    /\ Len(llm_log) = 2
    /\ llm_log[2].outcome = "raised"
    /\ result[1].success = FALSE
    /\ Len(result[1].steps) = 2
    /\ result[1].error = Some("Ollama error: model not found")

----------------------------------------------------------------------------
(* C10 *)

\* the code-generation call that is pending now has, in the next state,
\* returned a text with no fence in it
PendingCallReturnsProse ==
    /\ pc = "awaiting"
    /\ Len(llm_log') >= Len(llm_log)
    /\ llm_log'[Len(llm_log)].outcome = "returned"
    /\ ~Contains(llm_log'[Len(llm_log)].text, FENCE)

\* C10: when the response has no fenced block, run() appends one final step
\* holding the whole response and returns it as final_answer with
\* success = true, in the same iteration and without a further Model Client
\* call; on the first iteration the run ends with one call in all.
C10_ProseIsFinalAnswer ==
    [][ PendingCallReturnsProse =>
          LET text == llm_log'[Len(llm_log)].text
          IN  /\ pc' = "done"
              /\ result' # None
              /\ steps' = Append(steps, [step_type |-> "final", content |-> text, depth |-> 0])
              /\ result'[1].steps = steps'
              /\ result'[1].final_answer = text
              /\ result'[1].success = TRUE
              /\ result'[1].error = None
              /\ result'[1].total_llm_calls = llm_calls
              /\ Len(llm_log') = Len(llm_log)
              /\ trace' = trace
              /\ iteration = 0 => (result'[1].total_llm_calls = 1 /\ Len(llm_log') = 1) ]_vars

\* max_iterations = 3 and the first response is plain prose
C10_Witness ==
    /\ max_iterations = 3
    /\ Returned
    /\ Len(llm_log) = 1
    /\ llm_log[1].text = Prose
    /\ result[1].final_answer = Prose
    /\ result[1].success = TRUE
    /\ result[1].total_llm_calls = 1
    /\ Len(steps) = 1
    /\ steps[1].step_type = "final"

----------------------------------------------------------------------------
(* C11 *)

\* a sequence of steps holds at most one final step, and only as its last step
OneTrailingFinal(stps) ==
    /\ Len(StepsOfType(stps, "final")) <= 1
    /\ \A i \in 1..Len(stps) : stps[i].step_type = "final" => i = Len(stps)

\* C11: the steps of a run, while it runs and in the result it returns
\* whatever the outcome, hold at most one final step, and a final step is
\* the last step.
C11_OneFinalStepLast ==
    /\ OneTrailingFinal(steps)
    /\ result # None => OneTrailingFinal(result[1].steps)

\* a run that executed a fragment and then ended with a final step, after an
\* earlier run of the same engine
C11_Witness ==
    /\ Returned
    /\ prior_names # {}
    /\ Len(trace) >= 1
    /\ Len(result[1].steps) >= 3
    /\ result[1].steps[Len(result[1].steps)].step_type = "final"
    /\ Len(StepsOfType(result[1].steps, "final")) = 1

----------------------------------------------------------------------------
(* C12 *)

\* C12: when run() has returned, total_llm_calls is the number of
\* code-generation calls the engine made plus the number of llm_query calls
\* the fragments of the run made.
C12_TotalCountsEveryCall ==
    Returned =>
        result[1].total_llm_calls =
            Len(EngineCalls(llm_log)) + QueriesUpTo(trace, Len(trace))

----------------------------------------------------------------------------
(* C13 *)

\* the loop ran all its iterations: the last of max_iterations fragments
\* came back from execute and run() has returned
Exhausted ==
    /\ Returned
    /\ Len(trace) = max_iterations
    /\ trace[Len(trace)].how = "returned"

\* the text execute returned for the k-th fragment
OutputOf(k) ==
    IF trace[k].raised = None THEN trace[k].printed
    ELSE "Error: " \o trace[k].raised[1].type \o ": " \o trace[k].raised[1].msg

\* the result of an exhausted run, given the text of its error field
BudgetResult(error) ==
    LET own == FragmentSteps(result[1].steps)
    IN  /\ result[1].success = FALSE
        /\ result[1].final_answer = "[Reached max iterations without final answer]"
        /\ result[1].error = Some(error)
        /\ result[1].steps = steps
        /\ Len(own) = 2 * max_iterations
        /\ \A k \in 1..max_iterations :
              /\ own[2 * k - 1] = [step_type |-> "code", content |-> trace[k].code, depth |-> 0]
              /\ own[2 * k] = [step_type |-> "output", content |-> OutputOf(k), depth |-> 0]

\* C13 as claimed: a run that exhausts max_iterations returns success =
\* false, the fixed sentinel as final_answer, the error "iteration budget
\* exhausted", and every step appended during the run, in order.
C13_ErrorIsBudgetExhausted == Exhausted => BudgetResult("iteration budget exhausted")

\* C13, amended: a run that exhausts max_iterations returns success =
\* false, the fixed sentinel as final_answer, the error "Max iterations
\* reached", and every step appended during the run, in order.
C13_ErrorIsMaxIterations == Exhausted => BudgetResult("Max iterations reached")

\* a run of MaxIter iterations ran out, its first fragment having faulted
C13_Witness ==
    /\ Exhausted
    /\ max_iterations = MaxIter
    /\ trace[1].raised # None
    /\ Len(result[1].steps) = 2 * MaxIter
    /\ result[1].error = Some("Max iterations reached")

----------------------------------------------------------------------------
(* C14 *)

\* the failures a sub-query that is permitted can end with: the refusal of
\* the running event loop, and the faults of the Model Client
SubQueryFailures ==
    {Exc("RuntimeError", "This event loop is already running")} \cup ClientFaults

\* C14: whatever max_depth the configuration holds, an llm_query call of a
\* fragment, which is at nesting level 1, fails when 1 exceeds max_depth,
\* with an error that no permitted sub-query fails with, and makes no Model
\* Client call; and no step has a depth above max_depth.
C14_DepthBounded ==
    \A md \in MaxDepths :
        /\ \A i \in 1..Len(steps) : steps[i].depth <= md
        /\ 1 > md =>
              /\ SubCalls(llm_log) = << >>
              /\ \A k \in 1..Len(trace) : \A i \in 1..Len(trace[k].queries) :
                    /\ trace[k].queries[i].raised # None
                    /\ trace[k].queries[i].raised[1] \notin SubQueryFailures

----------------------------------------------------------------------------
(* C15 *)

\* C15: the data a fragment starts with are context, query and the
\* persisted variables of its run, beside the functions execute lists, and
\* no fragment reaches a module of the host (its filesystem, processes,
\* imports).
C15_NamespaceIsRestricted ==
    \A k \in 1..Len(trace) :
        /\ DOMAIN trace[k].ns_start \subseteq {"context", "query"} \cup DOMAIN trace[k].vars_start
        /\ trace[k].host = {}

----------------------------------------------------------------------------
(* C16 *)

\* the text execute returned for the k-th fragment of a frame
FrameOutput(f, k) ==
    IF f.trace[k].raised = None THEN f.trace[k].printed
    ELSE "Error: " \o f.trace[k].raised[1].type \o ": " \o f.trace[k].raised[1].msg

\* the frame holds what its own invocation did, and nothing else: its
\* prompts come from its own query, context and outputs, its code steps are
\* its own fragments, its count is the count of its own calls, its fragments
\* saw its own context and query and no name but those they bound themselves
OwnStateOnly(f) ==
    LET code_steps == StepsOfType(f.steps, "code")
        calls == EngineCalls(f.llm_log)
    IN  /\ Len(code_steps) = Len(f.trace)
        /\ \A k \in 1..Len(f.trace) :
              /\ code_steps[k].content = f.trace[k].code
              /\ f.trace[k].ns_start["context"] = StrV(f.context)
              /\ f.trace[k].ns_start["query"] = StrV(f.query)
              /\ \A n \in DOMAIN f.trace[k].ns_start :
                    n \in FixedBindings \/ \E j \in 1..(k - 1) : n \in DOMAIN f.trace[j].bound
        /\ Len(calls) >= 1
        /\ calls[1].prompt = initial_prompt(f.query, f.context)
        /\ \A k \in 2..Len(calls) : calls[k].prompt = next_prompt(FrameOutput(f, k - 1))
        /\ f.llm_calls = Len(f.llm_log)
        /\ f.result # None =>
              /\ f.result[1].steps = f.steps
              /\ f.result[1].total_llm_calls = f.llm_calls
              /\ f.result[1].query = f.query
              /\ f.result[1].context_length = Len(f.context)

\* C16: of two invocations of run() interleaved at their generate calls on
\* one engine, each has only its own steps in its result, counts only its
\* own calls, and its fragments see no variable the other's fragments bound.
C16_RunsShareNoState ==
    \A r \in Runs : runs[r].pc # "idle" => OwnStateOnly(runs[r])

\* invocation 1 persisted x and is suspended in its next generate call;
\* invocation 2, called after that, ran print(x), got a NameError, and is
\* suspended too
C16_Witness ==
    /\ runs[1].pc = "awaiting"
    /\ runs[2].pc = "awaiting"
    /\ "x" \in DOMAIN runs[1].env.variables
    /\ Len(runs[2].trace) = 1
    /\ runs[2].trace[1].raised = Some(Exc("NameError", "name 'x' is not defined"))
    /\ Len(runs[1].steps) = 2
    /\ Len(runs[2].steps) = 2

----------------------------------------------------------------------------
(* C17 *)

\* C17: two invocations with the same query and contexts of the same
\* length sent the same first prompt, whatever the contexts hold.
C17_FirstPromptFromLengthOnly ==
    \A r1, r2 \in Runs :
        ( /\ runs[r1].pc # "idle"
          /\ runs[r2].pc # "idle"
          /\ runs[r1].query = runs[r2].query
          /\ Len(runs[r1].context) = Len(runs[r2].context) )
        => runs[r1].llm_log[1].prompt = runs[r2].llm_log[1].prompt

\* two invocations with the same query and different contexts of the same
\* length, both past their first generate call
C17_Witness ==
    /\ runs[1].pc # "idle"
    /\ runs[2].pc # "idle"
    /\ runs[1].query = runs[2].query
    /\ runs[1].context # runs[2].context
    /\ Len(runs[1].context) = Len(runs[2].context)
    /\ runs[1].llm_log[1].outcome = "returned"
    /\ runs[2].llm_log[1].outcome = "returned"
    /\ runs[1].llm_log[1].prompt = runs[2].llm_log[1].prompt

----------------------------------------------------------------------------
(* C18 *)

\* the text is one paragraph, not longer than chunk_size and not blank
OneSmallParagraph ==
    /\ ~Contains(sum_text, "\n\n")
    /\ Len(sum_text) <= chunk_size
    /\ strip(sum_text) # ""

\* C18: summarize on one paragraph no longer than chunk_size returns
\* levels = 1 and chunk_count = 1 after exactly one Model Client call; on a
\* text that is empty once trimmed it makes no Model Client call and returns
\* the empty-document result with chunk_count = 0 and levels = 0.
C18_SmallAndEmptyTexts ==
    /\ (OneSmallParagraph /\ sum_pc = "done") =>
          /\ sum_result[1].levels = 1
          /\ sum_result[1].chunk_count = 1
          /\ Len(sum_log) = 1
    /\ strip(sum_text) = "" =>
          /\ sum_log = << >>
          /\ sum_pc = "done" => sum_result = Some(SummaryResult("Empty document.", 0, 0))

----------------------------------------------------------------------------
(* C19 *)

\* the paragraphs of the text
ParagraphsOf(str) == split(str, "\n\n")

\* the number of the group paragraph i falls in, when the paragraphs are
\* cut after the positions in cuts
GroupOf(cuts, i) == 1 + Cardinality({c \in cuts : c < i})

\* the paragraphs of group g, in order
GroupParagraphs(paras, cuts, g) ==
    LET members == {i \in 1..Len(paras) : GroupOf(cuts, i) = g}
        lo == CHOOSE i \in members : \A j \in members : i <= j
    IN  [k \in 1..Cardinality(members) |-> paras[lo + k - 1]]

\* the j-th least member of a set of numbers
Nth(set, j) == CHOOSE g \in set : Cardinality({h \in set : h <= g}) = j

\* chnks are the groups the cuts make of the paragraphs, each joined and
\* trimmed, the blank groups in dropped left out; and each chunk is within
\* size unless it is a single paragraph that is longer than size
WholeParagraphsWithin(paras, cuts, dropped, chnks, size) ==
    LET kept == (1..(Cardinality(cuts) + 1)) \ dropped
        text_of(g) == strip(join("\n\n", GroupParagraphs(paras, cuts, g)))
    IN  /\ \A g \in dropped : text_of(g) = ""
        /\ Len(chnks) = Cardinality(kept)
        /\ \A j \in 1..Len(chnks) :
              LET g == Nth(kept, j)
              IN  /\ chnks[j] = text_of(g)
                  /\ \/ Len(chnks[j]) <= size
                     \/ /\ Len(GroupParagraphs(paras, cuts, g)) = 1
                        /\ Len(GroupParagraphs(paras, cuts, g)[1]) > size

\* C19: the chunks _split makes are groups of whole consecutive paragraphs
\* of the text (blank groups aside), no paragraph divided between two
\* chunks, and every chunk is
\* at most chunk_size long unless it is one paragraph that alone is longer
\* than chunk_size.
C19_ChunksOfWholeParagraphs ==
    sum_pc # "idle" =>
        LET paras == ParagraphsOf(sum_text)
        IN  \E cuts \in SUBSET (1..(Len(paras) - 1)) :
                \E dropped \in SUBSET (1..(Cardinality(cuts) + 1)) :
                    WholeParagraphsWithin(paras, cuts, dropped, chunks, chunk_size)

----------------------------------------------------------------------------
(* C20 *)

\* ceil(m / 3)
Groups(m) == (m + 2) \div 3

RECURSIVE MergeCalls(_)
\* the number of generate calls the first p merge passes made
MergeCalls(p) == IF p = 0 THEN 0 ELSE MergeCalls(p - 1) + Groups(Len(passes[p]))

\* what the p-th finished pass left: the summaries the next pass started
\* from, or the current summaries
LeftBy(p) == IF p < Len(passes) THEN passes[p + 1] ELSE summaries

\* the p-th merge pass took m > 1 summaries, cut them in order into groups
\* of 3 with the rest in the last group, made one generate call per group
\* with the group's summaries, and left ceil(m/3) < m summaries, the
\* trimmed answers of those calls
PassMerged(p) ==
    LET from == passes[p]
        m == Len(from)
        first == Len(chunks) + MergeCalls(p - 1)
    IN  /\ m > 1
        /\ Len(LeftBy(p)) = Groups(m)
        /\ Groups(m) < m
        /\ Len(sum_log) >= first + Groups(m)
        /\ \A g \in 1..Groups(m) :
              /\ sum_log[first + g].prompt =
                    "Combine these summaries into one:\n\n"
                        \o join("\n\n", SubSeq(from, 3 * g - 2, min(3 * g, m)))
              /\ sum_log[first + g].outcome = "returned"
              /\ LeftBy(p)[g] = strip(sum_log[first + g].text)

\* the merge passes so far, and the result of a document with chunks
MergeTree ==
    /\ \A p \in 1..Len(passes) : PassMerged(p)
    /\ passes # << >> => Len(passes[1]) = Len(chunks)
    /\ (sum_pc = "done" /\ chunks # << >>) =>
          /\ Len(summaries) = 1
          /\ Len(sum_log) = Len(chunks) + MergeCalls(Len(passes))
          /\ sum_result = Some(SummaryResult(summaries[1], Len(chunks), 1 + Len(passes)))

RECURSIVE MergeCallsFor(_)
\* the number of generate calls it takes to merge m summaries into one
MergeCallsFor(m) == IF m <= 1 THEN 0 ELSE Groups(m) + MergeCallsFor(Groups(m))

\* summarize() on a document with chunks, until it returns or a generate
\* call raises, is suspended in a generate call, and it makes no more calls
\* than the chunks and the merge tree over them take
BoundedCalls ==
    /\ sum_pc \in {"chunk", "merge"} =>
          /\ sum_log # << >>
          /\ sum_log[Len(sum_log)].outcome = "pending"
          /\ \A i \in 1..(Len(sum_log) - 1) : sum_log[i].outcome = "returned"
    /\ sum_pc # "idle" => Len(sum_log) <= Len(chunks) + MergeCallsFor(Len(chunks))

\* C20: every merge pass over m > 1 summaries makes one call per group of 3
\* in order and leaves ceil(m/3) < m summaries; summarize of a document
\* with chunks returns one summary with levels = 1 + the number of passes;
\* and summarize ends once its generate calls end: it only ever waits for
\* a generate call, and the number of its calls is bounded.
C20_MergeTreeTerminates == MergeTree /\ BoundedCalls

\* a document of MaxLong chunks was summarized in three merge passes, the
\* first with a last group of one summary
C20_Witness ==
    /\ sum_pc = "done"
    /\ Len(chunks) = MaxLong
    /\ Len(passes) = 3
    /\ Len(passes[1]) % 3 = 1
    /\ sum_result[1].levels = 4
    /\ Len(sum_log) = MaxLong + 4 + 2 + 1

----------------------------------------------------------------------------
(* C21 *)

\* the parts a response of ExtResponses was written from
ShapeOf == [r \in ExtResponses |-> CHOOSE shape \in Shapes : WrittenOf[shape] = r]

\* the body of the first part of the kind, None when there is no such part
FirstBody(shape, kind) ==
    LET at == {i \in 1..Len(shape) : shape[i].kind = kind}
    IN  IF at = {} THEN None
        ELSE Some(shape[CHOOSE i \in at : \A j \in at : i <= j].body)

\* the block the priority selects: the first python block when there is
\* one, else the first untagged block when it holds a recognised token
SelectedBlock(shape) ==
    LET tagged == FirstBody(shape, "python")
        plain == FirstBody(shape, "plain")
    IN  IF tagged # None THEN tagged
        ELSE IF plain # None /\ (\E kw \in Keywords : Contains(plain[1], kw)) THEN plain
        ELSE None

\* the fragment of a response: the selected block, unless it is empty
FragmentOf(shape) ==
    IF SelectedBlock(shape) = None \/ SelectedBlock(shape) = Some("") THEN None
    ELSE SelectedBlock(shape)

\* C21: for every response the Model Client returned, written from prose,
\* untagged blocks and python blocks in any order: when it holds a python
\* block, the first python block is the fragment run() records and executes,
\* also when an untagged block comes first; otherwise the first untagged
\* block is the fragment if it holds one of print, for, if, def, =, FINAL;
\* otherwise, and when the selected block is empty, nothing is executed and
\* the run returns the whole response as final_answer, with a final step
\* holding it.
C21_ExtractionPriority ==
    \A i \in 1..Len(llm_log) :
        llm_log[i].outcome = "returned" =>
            LET r == llm_log[i].text
                f == FragmentOf(ShapeOf[r])
            IN  IF f = None
                THEN /\ i = Len(llm_log)
                     /\ Len(trace) = i - 1
                     /\ Returned
                     /\ result[1].final_answer = r
                     /\ result[1].success = TRUE
                     /\ steps[Len(steps)] = RLMStep("final", r)
                     /\ StepsOfType(steps, "code") = << >>
                ELSE /\ Len(trace) >= i
                     /\ trace[i].code = f[1]
                     /\ StepsOfType(steps, "code")[i] = RLMStep("code", f[1])

\* a response with an untagged block holding x = 42 before a python block
\* holding print(x): print(x) was executed
C21_Witness ==
    /\ pc = "done"
    /\ Len(llm_log) = 1
    /\ llm_log[1].outcome = "returned"
    /\ llm_log[1].text = WrittenOf[<<Segment("plain", "x = 42"), Segment("python", "print(x)")>>]
    /\ Len(trace) = 1
    /\ trace[1].code = "print(x)"
    /\ steps[1] = RLMStep("code", "print(x)")

----------------------------------------------------------------------------
(* C22 *)

\* the steps of the llm_query calls of the k-th fragment, in call order
QuerySteps(k) ==
    [i \in 1..Len(trace[k].queries) |-> RLMStep("llm_call", trace[k].queries[i].prompt)]

RECURSIVE StepsEnd(_)
\* the position in steps where the steps of the first k fragments end, when
\* each fragment has a code step, a step per llm_query call and one more
StepsEnd(k) == IF k = 0 THEN 0 ELSE StepsEnd(k - 1) + Len(trace[k].queries) + 2

\* the steps of the k-th fragment stand together: its code step, then the
\* llm_call steps of its llm_query calls in call order, then one output
\* step or the final step
FragmentBlock(k) ==
    LET from == StepsEnd(k - 1)
        nq == Len(trace[k].queries)
    IN  /\ Len(steps) >= from + nq + 2
        /\ steps[from + 1] = RLMStep("code", trace[k].code)
        /\ SubSeq(steps, from + 2, from + 1 + nq) = QuerySteps(k)
        /\ steps[from + nq + 2].step_type \in {"output", "final"}
        /\ steps[from + nq + 2].step_type = "final" => k = Len(trace)

\* C22: the steps of a run are, fragment after fragment in the order the
\* fragments ran, the fragment's code step, the llm_call steps of the
\* llm_query calls it made in call order, and one output step or the final
\* step of that fragment; after the last fragment's steps comes at most the
\* final step of a response without code.
C22_StepsInTemporalOrder ==
    /\ \A k \in 1..Len(trace) : FragmentBlock(k)
    /\ LET rest == SubSeq(steps, StepsEnd(Len(trace)) + 1, Len(steps))
       IN  rest = << >> \/ (Len(rest) = 1 /\ rest[1].step_type = "final")

----------------------------------------------------------------------------
(* C23 *)

----------------------------------------------------------------------------
(* C24 *)

\* the output step of the k-th fragment holds the error text alone, without
\* what the fragment printed before the fault
OutputIsErrorOnly(k) ==
    LET e == trace[k].raised[1]
    IN  FragmentSteps(steps)[2 * k] = RLMStep("output", "Error: " \o e.type \o ": " \o e.msg)

\* C24 as claimed: when a fragment ends with a fault, the persisted
\* variables are after it exactly what they were before it started, the
\* next fragment starts from them, and the fragment's output holds the
\* error text without what it printed before the fault.
C24_FaultLeavesVariablesAsTheyWere ==
    \A k \in 1..Len(trace) :
        Faulted(k) =>
            /\ trace[k].vars_end = trace[k].vars_start
            /\ k < Len(trace) => trace[k + 1].vars_start = trace[k].vars_start
            /\ OutputIsErrorOnly(k)

\* C24, amended: when a fragment ends with a fault, the persisted variables
\* hold after it the names they held before it started, each with the
\* object it had: no name the fragment bound is added, a name it rebound
\* keeps its persisted int or str value, and a persisted list is the same
\* list, with the changes the fragment made to it in place; the next
\* fragment starts from these variables, and the fragment's output holds
\* the error text without what it printed before the fault.
C24_FaultKeepsNamesAndObjects ==
    \A k \in 1..Len(trace) :
        Faulted(k) =>
            /\ DOMAIN trace[k].vars_end = DOMAIN trace[k].vars_start
            /\ \A n \in DOMAIN trace[k].vars_start :
                  /\ trace[k].vars_end[n].t = trace[k].vars_start[n].t
                  /\ trace[k].vars_start[n].t # "list" =>
                        trace[k].vars_end[n] = trace[k].vars_start[n]
            /\ k < Len(trace) => trace[k + 1].vars_start = trace[k].vars_end
            /\ OutputIsErrorOnly(k)

\* x = 42 was persisted, the next fragment rebound x and divided by zero,
\* and the third printed a line and divided by zero: x is still 42 and the
\* line is not in the output
C24_Witness ==
    /\ Len(trace) = 3
    /\ trace[2].vars_start = ("x" :> IntV(42))
    /\ trace[2].bound = ("x" :> StrV("b"))
    /\ Faulted(2)
    /\ trace[3].vars_start = ("x" :> IntV(42))
    /\ trace[3].printed = "a\n"
    /\ Faulted(3)
    /\ env.variables = ("x" :> IntV(42))
    /\ steps[6] = RLMStep("output", "Error: ZeroDivisionError: division by zero")

----------------------------------------------------------------------------
(* C25 *)

\* C25: when a fragment binds a name and then calls FINAL_VAR on it, the
\* run has returned right after that fragment, with the value persisted
\* for the name before the fragment started as final_answer, or with the
\* not-found message when no earlier fragment had persisted the name.
C25_FinalVarReadsPersisted ==
    \A k \in 1..Len(trace) :
        LET names == {trace[k].final_vars[i] : i \in 1..Len(trace[k].final_vars)}
        IN  \A n \in names \cap DOMAIN trace[k].bound :
                /\ k = Len(trace)
                /\ Returned
                /\ result[1].success = TRUE
                /\ result[1].final_answer =
                        IF n \in DOMAIN trace[k].vars_start
                        THEN Str(trace[k].vars_start[n])
                        ELSE "Error: Variable '" \o n \o "' not found"

====
